---- MODULE Spec2Model ----
(***************************************************************************)
(* License server (wkerwmm/slicense): the license lifecycle service, its   *)
(* MySQL persistence layer with per-operation transactions, the            *)
(* verification endpoint, the account service (register, login) and the    *)
(* bearer tokens.                                                          *)
(*                                                                         *)
(* Strings the code inspects character by character (license keys, owner   *)
(* e-mails) are sequences of one-character strings; strings the code only  *)
(* passes around or compares whole (product, owner name, error texts) are  *)
(* TLA+ strings.                                                           *)
(***************************************************************************)
EXTENDS Integers, Sequences, FiniteSets, TLC

VARIABLES
    licenses,   \* table licenses: rows, each tagged with the transaction that wrote it
    audit_log,  \* table audit_log: sequence of rows in insertion order, tagged likewise
    now,        \* the clock: time.Now() in the handlers, CURRENT_TIMESTAMP in MySQL
    pc,         \* pc[p]: where request/CLI invocation p stands in its handler
    call,       \* call[p]: the operation p runs, its arguments, when it started and
                \* (history) which other calls were under way when it started
    err,        \* err[p]: the local variable err of Database.AddLicense/DeleteLicense
    ret,        \* ret[p]: the error value the operation returned
    txStatus,   \* txStatus[p]: state of the *sql.Tx the current call began
    resp,       \* resp[p]: the JSON object VerifyLicense wrote to the response
    lookup,     \* lookup[p]: the err VerifyLicense got back from GetLicense, Login
                \* from row.Scan
    pre,        \* history: the committed tables when the current call started
    hist,       \* history: per (key, product), the last successful add/delete and
                \* whether a verify has found its expiry ahead since
    out,        \* out[p]: the values the operation returned next to its error
    accounts,   \* table Accounts: rows (statements on it run outside transactions)
    req,        \* req[p]: the arguments of an account, token or audit-log request
    w,          \* w[p]: the HTTP response written: status code and body
    tokens,     \* the bearer tokens GenerateJWT has issued so far
    seen,       \* history: cause, error and HTTP response of the logins that failed
                \* for want of an account or for a wrong password, and of the
                \* tokens that were rejected
    sm          \* the SecurityMiddleware: its configuration and its rate limiters

\* the state of the web side: accounts, requests, tokens, rate limiters
authVars == <<accounts, req, w, tokens, seen, sm>>

vars == <<licenses, audit_log, now, pc, call, err, ret, txStatus, resp, lookup,
          pre, hist, out, authVars>>

----------------------------------------------------------------------------
(* Bounds of the model. *)

\* the clock counts ticks and runs from 0 to MaxTime
MaxTime == 3
\* the resolution of the clock: ticks in a second
TicksPerSecond == 2
\* at most MaxAudit rows are ever written to audit_log
MaxAudit == 3
\* a client keeps at most MaxTokens tokens
MaxTokens == 1

\* independent requests / CLI invocations
Procs == {1, 2}
\* the invocations that run under Spec: one at a time
Cli == {1}

----------------------------------------------------------------------------
(* Characters and sample inputs. *)

Upper == {"A","B","C","D","E","F","G","H","I","J","K","L","M",
          "N","O","P","Q","R","S","T","U","V","W","X","Y","Z"}
Digit == {"0","1","2","3","4","5","6","7","8","9"}
Hyphen == "-"

Dash(g1, g2) == g1 \o <<Hyphen>> \o g2

KeyA == Dash(Dash(Dash(<<"A","B","C","D">>, <<"1","2","3","4">>),
                  <<"E","F","G","H">>), <<"5","6","7","8">>)
KeyB == Dash(Dash(Dash(<<"Z","Z","Z","Z">>, <<"0","0","0","0">>),
                  <<"9","A","9","A">>), <<"Q","R","S","T">>)

\* keys that the format check accepts
GoodKeys == {KeyA, KeyB}
\* the keys of the lifecycle specification
LifecycleKeys == {KeyA}

\* keys that it must reject: lowercase, too few / too many groups, empty,
\* trailing or leading characters, wrong or missing separators, misplaced hyphens
BadKeys ==
    { Dash(Dash(Dash(<<"a","b","c","d">>, <<"1","2","3","4">>),
                <<"e","f","g","h">>), <<"5","6","7","8">>),
      Dash(Dash(Dash(<<"A","B","C","D">>, <<"1","2","3","4">>),
                <<"E","F","G","H">>), <<"5","6","7","x">>),
      Dash(Dash(<<"A","B","C","D">>, <<"E","F","G","H">>), <<"I","J","K","L">>),
      Dash(KeyA, <<"E","X","T","R">>),
      << >>,
      KeyA \o <<"X">>,
      KeyA \o <<"\n">>,
      <<" ">> \o KeyA,
      <<"A","B","C","D">> \o <<"_">> \o <<"1","2","3","4">> \o <<"_">>
          \o <<"E","F","G","H">> \o <<"_">> \o <<"5","6","7","8">>,
      <<"A","B","C","D","1","2","3","4","E","F","G","H","5","6","7","8">>,
      <<"A","B","C","D","1","2","3","4","E","F","G","H","5","6","7","8","X","Y","Z">>,
      Dash(Dash(Dash(<<"A","B","C","D","E">>, <<"1","2","3">>),
                <<"E","F","G","H">>), <<"5","6","7","8">>),
      Dash(Dash(Dash(<<"A","B","C","D">>, <<"1","2","3","4">>),
                <<"E","F","-","H">>), <<"5","6","7","8">>),
      <<"i","n","v","a","l","i","d","-","k","e","y">> }

MailA == <<"a","@","b",".","c","o","m">>
MailB == <<"t",".","e","+","g","@","d",".","c","o",".","u","k">>

GoodEmails == { MailA, MailB, <<"a","@","b",".",".","c">>, <<"a"," ","@","\n",".","c">> }

BadEmails ==
    { <<"i","n","v","a","l","i","d","-","e","m","a","i","l">>,
      <<"@","d",".","c","o","m">>,
      <<"u","s","e","r","@">>,
      << >>,
      <<"a","@","@","b",".","c">>,
      <<"a","@","b","@","c",".","d">>,
      <<"a","@","b",".","c","@">>,
      <<"a","@","b",".">>,
      <<"a","@",".","c">>,
      <<"a","@",".">>,
      <<"a","@","b","c">>,
      <<"a",".","b","@","c">> }

Products == {"Demo", ""}

----------------------------------------------------------------------------
(* regexp.MatchString for the two patterns the service uses.  A pattern is *)
(* a sequence of items, each a character class (a set of characters, or    *)
(* the complement of one) that is matched exactly once or, with "+", one   *)
(* or more times.  Both patterns are anchored with ^ and $; without the    *)
(* (?m) flag Go's $ matches at the end of the text only.                   *)

One(set)      == [set |-> set, neg |-> FALSE, plus |-> FALSE]
PlusNot(set)  == [set |-> set, neg |-> TRUE,  plus |-> TRUE]

InClass(item, ch) == IF item.neg THEN ch \notin item.set ELSE ch \in item.set

RECURSIVE MatchFrom(_, _, _, _)
MatchFrom(pat, i, s, j) ==
    IF i > Len(pat)
    THEN j > Len(s)
    ELSE /\ j <= Len(s)
         /\ InClass(pat[i], s[j])
         /\ \/ MatchFrom(pat, i + 1, s, j + 1)
            \/ pat[i].plus /\ MatchFrom(pat, i, s, j + 1)

MatchString(pat, s) == MatchFrom(pat, 1, s, 1)

AlnumGroup == [i \in 1..4 |-> One(Upper \cup Digit)]

\* ^[A-Z0-9]{4}-[A-Z0-9]{4}-[A-Z0-9]{4}-[A-Z0-9]{4}$
LicenseKeyPattern ==
    AlnumGroup \o <<One({Hyphen})>> \o AlnumGroup \o <<One({Hyphen})>>
        \o AlnumGroup \o <<One({Hyphen})>> \o AlnumGroup

\* ^[^@]+@[^@]+\.[^@]+$
EmailPattern ==
    <<PlusNot({"@"}), One({"@"}), PlusNot({"@"}), One({"."}), PlusNot({"@"})>>

KeyPatternLoose ==
    [i \in 1..Len(LicenseKeyPattern) |->
        IF LicenseKeyPattern[i].set = {Hyphen} THEN LicenseKeyPattern[i]
        ELSE One(Upper \cup Digit \cup {"a","b","c","d","e","f","g","h","x"})]

isValidLicenseKeyLoose(key) == MatchString(KeyPatternLoose, key)

isValidLicenseKey(key) == MatchString(LicenseKeyPattern, key)

isValidEmailNoDot(email) ==
    MatchString(<<PlusNot({"@"}), One({"@"}), PlusNot({"@"})>>, email)

isValidEmail(email) == MatchString(EmailPattern, email)

----------------------------------------------------------------------------
(* Values. *)

\* sql.NullTime / *time.Time: Valid = FALSE is SQL NULL and the nil pointer
NullTime(t) == [Valid |-> TRUE, Time |-> t]
NilTime == [Valid |-> FALSE, Time |-> 0]

\* a point in time cut down to the whole second it lies in (CURRENT_TIMESTAMP
\* and NOW() of a DATETIME column, jwt.NewNumericDate)
Truncate(t) == (t \div TicksPerSecond) * TicksPerSecond

\* a time.Time parameter stored into a DATETIME column: the driver sends the
\* fraction of the second, the column has no fractional digits, and MySQL
\* rounds to the nearest whole second (half a second rounds up)
DatetimeTruncated(v) == IF v.Valid THEN NullTime(Truncate(v.Time)) ELSE NilTime
Datetime(v) ==
    IF v.Valid
    THEN NullTime(((2 * v.Time + TicksPerSecond) \div (2 * TicksPerSecond)) * TicksPerSecond)
    ELSE NilTime

\* sql.NullString for the nullable TEXT column audit_log.details
NullString(s) == [Valid |-> TRUE, String |-> s]
NilString == [Valid |-> FALSE, String |-> << >>]

\* error values: msg is the text of the error itself, cause the text of the
\* error it wraps with %w ("" when it wraps none)
Error(msg) == [msg |-> msg, cause |-> ""]
Nil == Error("nil")
Errorf(prefix, e) == [msg |-> prefix, cause |-> e.msg]

ErrLicenseNotFound == Error("license not found")
ErrDuplicateKey == Error("duplicate license key")
ErrInvalidLicenseKey == Error("invalid license key format")
ErrInvalidEmail == Error("invalid email format")

\* what the MySQL driver returns when a statement cannot be carried out
ErrBadConn == Error("driver: bad connection")
\* go-sql-driver/mysql v1.8.1 renders a server error as
\* "Error <number> (<sqlstate>): <message>"; for ER_DUP_ENTRY the message names
\* the offending entry and the violated key
ErrDupEntry ==
    Error("Error 1062 (23000): Duplicate entry '<key>-<product>' for key 'licenses.uk_license_product'")

isDuplicateKeyError(e) ==
    IF e = Nil THEN FALSE ELSE e.msg = "Error 1062: Duplicate entry"

----------------------------------------------------------------------------
(* The tables.  A row carries the number of the open transaction that      *)
(* inserted it (tx) or marked it deleted (del); 0 means committed / not    *)
(* deleted.  Only committed rows are visible outside their transaction.    *)

LicenseRow(key, product, expiresAt, ownerEmail, ownerName, tag) ==
    [license_key |-> key, product |-> product, expires_at |-> Datetime(expiresAt),
     owner_email |-> ownerEmail, owner_name |-> ownerName,
     is_activated |-> FALSE, tx |-> tag, del |-> 0]

AuditRow(action, key, product, details, tag) ==
    [action |-> action, license_key |-> key, product |-> product,
     changed_at |-> Truncate(now), details |-> details, tx |-> tag]

\* fmt.Sprintf("Owner: %s (%s)", ownerName, ownerEmail)
OwnerDetails(ownerName, ownerEmail) == <<"Owner: ", ownerName, " (", ownerEmail, ")">>

\* the rows of the license table that are durably present
CommittedLicenses == { [r EXCEPT !.del = 0] : r \in { x \in licenses : x.tx = 0 } }
\* the rows of the audit log that are durably present, in insertion order
CommittedAudit == SelectSeq(audit_log, LAMBDA a : a.tx = 0)

\* the UNIQUE KEY uk_license_product compares (license_key, product)
SamePair(r, key, product) == r.license_key = key /\ r.product = product

NoRowLocks(p, key, product) == FALSE
\* InnoDB row locks: a row another open transaction inserted or deleted
LockedByOther(p, key, product) ==
    \E r \in licenses :
        /\ SamePair(r, key, product)
        /\ (r.tx \notin {0, p} \/ r.del \notin {0, p})

\* the rows transaction p sees
VisibleTo(p) == { r \in licenses : r.tx \in {0, p} /\ r.del # p }

\* the transaction a statement issued through tx.Exec belongs to
AutoCommit(p) == 0
TxOf(p) == p

\* tx.Commit / tx.Rollback on the tables
CommitLicenses(p) ==
    { [r EXCEPT !.tx = 0] : r \in { x \in licenses : x.del # p } }
LoseAudit(p) == SelectSeq(audit_log, LAMBDA a : a.tx # p)
CommitAudit(p) ==
    [i \in 1..Len(audit_log) |->
        IF audit_log[i].tx = p THEN [audit_log[i] EXCEPT !.tx = 0] ELSE audit_log[i]]
RollbackLicenses(p) ==
    { IF r.del = p THEN [r EXCEPT !.del = 0] ELSE r : r \in { x \in licenses : x.tx # p } }
TruncateAudit(p) == << >>
RollbackAudit(p) == SelectSeq(audit_log, LAMBDA a : a.tx # p)

----------------------------------------------------------------------------
(* Requests. *)

\* random: the key was made by GenerateLicenseKey (add --key random)
NoCall == [op |-> "none", key |-> << >>, product |-> "", owner_email |-> << >>,
           owner_name |-> "", expires_at |-> NilTime, at |-> 0, with |-> {},
           random |-> FALSE]

AddCallOf(key, product, ownerEmail, ownerName, expiresAt) ==
    [op |-> "add", key |-> key, product |-> product, owner_email |-> ownerEmail,
     owner_name |-> ownerName, expires_at |-> expiresAt, at |-> 0, with |-> {},
     random |-> FALSE]

KeyProductCall(op, key, product) == [NoCall EXCEPT !.op = op, !.key = key, !.product = product]

\* the expiry a caller may pass: none, or a point in time (one tick after time
\* 0, inside a second)
Expiries == {NilTime, NullTime(1)}

\* the arguments of the add calls of the lifecycle specification: well-formed
\* ones in some variety, and a few that the validation rejects
AddInputs ==
    { AddCallOf(k, pr, o[1], o[2], e) :
        k \in LifecycleKeys, pr \in Products, o \in {<<MailA, "A B">>, <<MailB, "">>},
        e \in Expiries }
    \cup { AddCallOf(k, "Demo", MailA, "A B", NilTime) : k \in {<< >>, KeyA \o <<"X">>} }
    \cup { AddCallOf(KeyA, "Demo", m, "A B", NilTime) : m \in {<< >>, <<"a","@","b","c">>} }

\* the arguments of the add calls of the validation specification: every sample
\* key with a well-formed and a malformed e-mail, every sample e-mail with a
\* well-formed key
ValidationInputs ==
    { AddCallOf(k, "Demo", m, "A B", NilTime) :
        k \in GoodKeys \cup BadKeys, m \in {MailA, <<"a","@","b","c">>} }
    \cup { AddCallOf(k, "Demo", m, "A B", NilTime) : k \in GoodKeys,
                                                     m \in GoodEmails \cup BadEmails }

----------------------------------------------------------------------------
(* utils.GenerateLicenseKey. *)

charsWithLower ==
    <<"a","B","C","D","E","F","G","H","I","J","K","L","M","N","O","P","Q","R",
      "S","T","U","V","W","X","Y","Z","0","1","2","3","4","5","6","7","8","9">>
\* const chars = "ABCDEFGHIJKLMNOPQRSTUVWXYZ0123456789"
chars ==
    <<"A","B","C","D","E","F","G","H","I","J","K","L","M","N","O","P","Q","R",
      "S","T","U","V","W","X","Y","Z","0","1","2","3","4","5","6","7","8","9">>

\* the numbers rand.Intn(len(chars)) delivers to the sixteen calls of one
\* GenerateLicenseKey: a sample of the sequences the generator can yield, in
\* which every number turns up at every position
Draws ==
    { [n \in 1..16 |-> (s + (n - 1) * k) % Len(chars)] :
        s \in 0..(Len(chars) - 1), k \in 0..(Len(chars) - 1) }

\* the inner loop: for j := 0; j < 4; j++ { sb.WriteByte(chars[rand.Intn(len(chars))]) }
RECURSIVE WriteBlock(_, _, _)
WriteBlock(draws, i, j) ==
    IF j < 4
    THEN <<chars[draws[4 * i + j + 1] + 1]>> \o WriteBlock(draws, i, j + 1)
    ELSE << >>

\* the outer loop: for i := 0; i < 4; i++ { if i > 0 { sb.WriteString("-") } ... }
RECURSIVE WriteBlocks(_, _)
WriteBlocks(draws, i) ==
    IF i < 4
    THEN (IF i > 0 THEN <<Hyphen>> ELSE << >>)
            \o WriteBlock(draws, i, 0) \o WriteBlocks(draws, i + 1)
    ELSE << >>

\* GenerateLicenseKey() when rand.Intn delivers draws
GenerateLicenseKey(draws) == WriteBlocks(draws, 0)

\* the arguments of the add calls that race for one pair
ConcInputs ==
    { AddCallOf(KeyA, "Demo", o[1], o[2], NilTime) : o \in {<<MailA, "A B">>, <<MailB, "">>} }

Pairs == GoodKeys \X Products

\* verified: a verify of the pair has found it valid, its expiry ahead, since
\* the add
NoHist == [st |-> "never", owner_email |-> << >>, owner_name |-> "", expires_at |-> NilTime,
           verified |-> FALSE]

Snapshot == [licenses |-> CommittedLicenses, audit |-> CommittedAudit,
             accounts |-> accounts]
NoSnapshot == [licenses |-> {}, audit |-> << >>, accounts |-> {}]

\* database.License zero value
NoLicense == [Key |-> << >>, Product |-> "", ExpiresAt |-> NilTime,
              OwnerEmail |-> << >>, OwnerName |-> "", IsActivated |-> FALSE]

\* database.Account zero value
NoAccount == [ID |-> 0, Username |-> "", Email |-> "", PasswordHash |-> << >>,
              LastLogin |-> NilTime]

\* utils.Claims zero value
NoClaims == [UserID |-> 0, ExpiresAt |-> 0, IssuedAt |-> 0]

\* a JWT: the claims and the HMAC over them, which stands for the claims it
\* was computed over and the key it was computed with
Sign(key, claims) == [key |-> key, claims |-> claims]

\* the Authorization header: the scheme prefix and the token after it; issued
\* and id are history: when GenerateJWT issued the token and for which account
\* (not Valid for a token GenerateJWT did not issue)
NoBearer == [prefix |-> "", token |-> [claims |-> NoClaims, sig |-> Sign("", NoClaims)], issued |-> NilTime, id |-> 0]

\* what an operation returned next to its error: the license of GetLicense,
\* the slice of ListLicenses or GetAuditLogs, the account of Login, the claims
\* of ParseJWT; entered tells whether the handler behind the token check ran
NoOut == [lic |-> NoLicense, rows |-> << >>, acc |-> NoAccount,
          claims |-> NoClaims, entered |-> FALSE]

\* the body of an account request as the handler has decoded it and whether
\* the decoding failed, the Authorization header, the limit of an audit-log
\* query, the address of the client (zero values)
NoReq == [username |-> "", email |-> "", password |-> "", passwordRepeat |-> "",
          decodeErr |-> FALSE, bearer |-> NoBearer, limit |-> 0, clientIP |-> ""]

\* nothing written to the http.ResponseWriter yet: no status, no text, no
\* JSON object
NoW == [status |-> 0, text |-> << >>, json |-> << >>]

\* http.Error(w, text, code): the text and a newline as the body
HttpError(text, code) == [status |-> code, text |-> text \o <<"\n">>, json |-> << >>]
\* json.NewEncoder(w).Encode(object) with no status set before: 200
HttpJson(object) == [status |-> 200, text |-> << >>, json |-> object]

\* the zero value of VerifyResponse, as a JSON object: {"valid": false}
NoResp == [f \in {"valid"} |-> FALSE]

\* DefaultSecurityConfig(): the fields the rate limiter reads
DefaultSecurityConfig ==
    [RateLimitEnabled |-> TRUE, RequestsPerMinute |-> 100, BurstSize |-> 20]

\* the state after construction, the middleware made with the configuration
\* config
InitWith(config) ==
    /\ licenses = {}
    /\ audit_log = << >>
    /\ now = 0
    /\ pc = [p \in Procs |-> "idle"]
    /\ call = [p \in Procs |-> NoCall]
    /\ err = [p \in Procs |-> Nil]
    /\ ret = [p \in Procs |-> Nil]
    /\ txStatus = [p \in Procs |-> "none"]
    /\ resp = [p \in Procs |-> NoResp]
    /\ lookup = [p \in Procs |-> Nil]
    /\ pre = [p \in Procs |-> NoSnapshot]
    /\ hist = [pr \in Pairs |-> NoHist]
    /\ out = [p \in Procs |-> NoOut]
    /\ accounts = {}
    /\ req = [p \in Procs |-> NoReq]
    /\ w = [p \in Procs |-> NoW]
    /\ tokens = {}
    /\ seen = {}
    /\ sm = [config |-> config, rateLimiters |-> << >>]

\* NewSecurityMiddleware(nil)
Init == InitWith(DefaultSecurityConfig)

----------------------------------------------------------------------------
(* Returning from Database.AddLicense / Database.DeleteLicense.  The       *)
(* deferred function rolls the transaction back when the local variable    *)
(* err is not nil at that moment; the value returned is a separate thing.  *)

AddDeferredRollback(localErr) == localErr # Nil

DeleteNeverRollback(localErr) == FALSE
DeleteDeferredRollback(localErr) == localErr # Nil

\* p returns `value` while its local err is `localErr`; `rollback` is what the
\* deferred function decides
Return(p, localErr, value, rollback) ==
    /\ err' = [err EXCEPT ![p] = localErr]
    /\ ret' = [ret EXCEPT ![p] = value]
    /\ pc' = [pc EXCEPT ![p] = "done"]
    /\ IF rollback /\ txStatus[p] = "open"
       THEN /\ licenses' = RollbackLicenses(p)
            /\ audit_log' = RollbackAudit(p)
            /\ txStatus' = [txStatus EXCEPT ![p] = "rolledback"]
       ELSE UNCHANGED <<licenses, audit_log, txStatus>>

\* p goes on to its next statement
Goto(p, label) ==
    /\ pc' = [pc EXCEPT ![p] = label]
    /\ UNCHANGED <<err, ret>>

\* the calls that have started and not returned yet
InFlight == { q \in Procs : pc[q] \notin {"idle", "done"} }

StartCall(p, c) ==
    /\ pc[p] = "idle"
    /\ call' = [q \in Procs |->
                    IF q = p THEN [c EXCEPT !.at = now, !.with = InFlight]
                    ELSE [call[q] EXCEPT !.with = @ \ {p}]]
    /\ pre' = [pre EXCEPT ![p] = Snapshot]

\* d.db.Begin()
Begin(p, label) ==
    \/ /\ txStatus' = [txStatus EXCEPT ![p] = "open"]
       /\ pc' = [pc EXCEPT ![p] = label]
       /\ UNCHANGED <<err, ret>>
    \/ /\ err' = [err EXCEPT ![p] = ErrBadConn]
       /\ ret' = [ret EXCEPT ![p] = Errorf("transaction begin failed", ErrBadConn)]
       /\ pc' = [pc EXCEPT ![p] = "done"]
       /\ UNCHANGED txStatus

----------------------------------------------------------------------------
(* Service.AddLicense and Database.AddLicense. *)

AddLicenseCall(p, inputs) ==
    /\ Len(audit_log) < MaxAudit
    /\ \E c \in inputs :
        /\ StartCall(p, c)
        /\ IF ~isValidLicenseKey(c.key)
           THEN /\ ret' = [ret EXCEPT ![p] = ErrInvalidLicenseKey]
                /\ pc' = [pc EXCEPT ![p] = "done"]
                /\ UNCHANGED <<err, txStatus>>
           ELSE IF ~isValidEmail(c.owner_email)
           THEN /\ ret' = [ret EXCEPT ![p] = ErrInvalidEmail]
                /\ pc' = [pc EXCEPT ![p] = "done"]
                /\ UNCHANGED <<err, txStatus>>
           ELSE Begin(p, "add_insert")
    /\ UNCHANGED <<licenses, audit_log, now, resp, lookup, hist>>
    /\ UNCHANGED <<out, authVars>>

\* INSERT INTO licenses ...
AddInsertLicense(p) ==
    /\ pc[p] = "add_insert"
    /\ ~LockedByOther(p, call[p].key, call[p].product)
    /\ LET c == call[p] IN
       \/ Return(p, ErrBadConn, Errorf("license insert failed", ErrBadConn),
                 AddDeferredRollback(ErrBadConn))
       \/ /\ \E r \in VisibleTo(p) : SamePair(r, c.key, c.product)
          /\ Return(p, ErrDupEntry,
                    IF isDuplicateKeyError(ErrDupEntry) THEN ErrDuplicateKey
                    ELSE Errorf("license insert failed", ErrDupEntry),
                    AddDeferredRollback(ErrDupEntry))
       \/ /\ ~ \E r \in VisibleTo(p) : SamePair(r, c.key, c.product)
          /\ licenses' = licenses \cup
                {LicenseRow(c.key, c.product, c.expires_at, c.owner_email,
                            c.owner_name, TxOf(p))}
          /\ Goto(p, "add_audit")
          /\ UNCHANGED <<audit_log, txStatus>>
    /\ UNCHANGED <<now, call, resp, lookup, pre, hist>>
    /\ UNCHANGED <<out, authVars>>

\* INSERT INTO audit_log ... "ADD"
AddInsertAudit(p) ==
    /\ pc[p] = "add_audit"
    /\ LET c == call[p] IN
       \/ Return(p, ErrBadConn, Errorf("audit log insert failed", ErrBadConn),
                 AddDeferredRollback(ErrBadConn))
       \/ /\ audit_log' = Append(audit_log,
                AuditRow("ADD", c.key, c.product,
                         NullString(OwnerDetails(c.owner_name, c.owner_email)), TxOf(p)))
          /\ Goto(p, "add_commit")
          /\ UNCHANGED <<licenses, txStatus>>
    /\ UNCHANGED <<now, call, resp, lookup, pre, hist>>
    /\ UNCHANGED <<out, authVars>>

\* tx.Commit(): the transaction is finished whether or not the commit succeeds;
\* a commit that fails leaves nothing of the transaction behind
TxCommit(p, ok) ==
    IF ok
    THEN /\ licenses' = CommitLicenses(p)
         /\ audit_log' = CommitAudit(p)
         /\ txStatus' = [txStatus EXCEPT ![p] = "committed"]
    ELSE /\ licenses' = RollbackLicenses(p)
         /\ audit_log' = RollbackAudit(p)
         /\ txStatus' = [txStatus EXCEPT ![p] = "rolledback"]

\* return tx.Commit()
AddCommit(p) ==
    /\ pc[p] = "add_commit"
    /\ \E ok \in BOOLEAN :
        /\ TxCommit(p, ok)
        /\ ret' = [ret EXCEPT ![p] = IF ok THEN Nil ELSE ErrBadConn]
        /\ hist' = IF ok /\ <<call[p].key, call[p].product>> \in Pairs
                   THEN [hist EXCEPT ![<<call[p].key, call[p].product>>] =
                            [st |-> "live", owner_email |-> call[p].owner_email,
                             owner_name |-> call[p].owner_name,
                             expires_at |-> call[p].expires_at,
                             verified |-> FALSE]]
                   ELSE hist
    /\ pc' = [pc EXCEPT ![p] = "done"]
    /\ UNCHANGED <<now, call, err, resp, lookup, pre>>
    /\ UNCHANGED <<out, authVars>>

----------------------------------------------------------------------------
(* Service.DeleteLicense and Database.DeleteLicense. *)

DeleteLicenseCall(p) ==
    /\ Len(audit_log) < MaxAudit
    /\ \E k \in LifecycleKeys, pr \in Products :
        /\ StartCall(p, KeyProductCall("delete", k, pr))
        /\ Begin(p, "del_exec")
    /\ UNCHANGED <<licenses, audit_log, now, resp, lookup, hist>>
    /\ UNCHANGED <<out, authVars>>

\* WHERE license_key = ? (a statement that forgets the product)
DeleteWhereKeyOnly(r, key, product) == r.license_key = key
\* WHERE license_key = ? AND product = ?
DeleteWhere(r, key, product) == r.license_key = key /\ r.product = product

\* rows marked deleted by transaction t; outside a transaction (t = 0) a
\* DELETE takes effect at once
ApplyDelete(rows, t) ==
    IF t = 0 THEN licenses \ rows
    ELSE { IF r \in rows THEN [r EXCEPT !.del = t] ELSE r : r \in licenses }

NeverNoRows(rowsAffected) == FALSE
\* rowsAffected == 0
NoRowsAffected(rowsAffected) == rowsAffected = 0

\* DELETE FROM licenses ..., result.RowsAffected() (which the MySQL driver
\* never fails), and the rowsAffected == 0 return
DeleteExec(p) ==
    /\ pc[p] = "del_exec"
    /\ LET c == call[p]
           rows == { r \in VisibleTo(p) : DeleteWhere(r, c.key, c.product) }
       IN
       /\ ~LockedByOther(p, c.key, c.product)
       /\ \/ Return(p, ErrBadConn, Errorf("license delete failed", ErrBadConn),
                    DeleteDeferredRollback(ErrBadConn))
          \/ /\ NoRowsAffected(Cardinality(rows))
             /\ Return(p, Nil, ErrLicenseNotFound, DeleteDeferredRollback(Nil))
          \/ /\ ~NoRowsAffected(Cardinality(rows))
             /\ licenses' = ApplyDelete(rows, TxOf(p))
             /\ Goto(p, "del_audit")
             /\ UNCHANGED <<audit_log, txStatus>>
    /\ UNCHANGED <<now, call, resp, lookup, pre, hist>>
    /\ UNCHANGED <<out, authVars>>

\* INSERT INTO audit_log ... "DELETE" (no details: the column stays NULL)
DeleteInsertAudit(p) ==
    /\ pc[p] = "del_audit"
    /\ LET c == call[p] IN
       \/ Return(p, ErrBadConn, Errorf("audit log insert failed", ErrBadConn),
                 DeleteDeferredRollback(ErrBadConn))
       \/ /\ audit_log' = Append(audit_log,
                AuditRow("DELETE", c.key, c.product, NilString, TxOf(p)))
          /\ Goto(p, "del_commit")
          /\ UNCHANGED <<licenses, txStatus>>
    /\ UNCHANGED <<now, call, resp, lookup, pre, hist>>
    /\ UNCHANGED <<out, authVars>>

\* return tx.Commit()
DeleteCommit(p) ==
    /\ pc[p] = "del_commit"
    /\ \E ok \in BOOLEAN :
        /\ TxCommit(p, ok)
        /\ ret' = [ret EXCEPT ![p] = IF ok THEN Nil ELSE ErrBadConn]
        /\ hist' = IF ok
                   THEN [hist EXCEPT ![<<call[p].key, call[p].product>>] =
                            [NoHist EXCEPT !.st = "deleted"]]
                   ELSE hist
    /\ pc' = [pc EXCEPT ![p] = "done"]
    /\ UNCHANGED <<now, call, err, resp, lookup, pre>>
    /\ UNCHANGED <<out, authVars>>

----------------------------------------------------------------------------
(* Database.GetLicense and Handler.VerifyLicense. *)

\* database.License as GetLicense fills it in from a row
LicenseOf(r) ==
    [Key |-> r.license_key, Product |-> r.product, ExpiresAt |-> r.expires_at,
     OwnerEmail |-> r.owner_email, OwnerName |-> r.owner_name,
     IsActivated |-> r.is_activated]

\* the outcomes of GetLicense(key, product): the query fails, finds no row, or
\* finds a row; a query outside a transaction reads the committed rows
GetLicense(key, product) ==
    LET rows == { r \in licenses : r.tx = 0 /\ SamePair(r, key, product) } IN
    { [lic |-> NoLicense, err |-> Errorf("license query failed", ErrBadConn)] }
    \cup (IF rows = {} THEN { [lic |-> NoLicense, err |-> ErrLicenseNotFound] }
          ELSE { [lic |-> LicenseOf(r), err |-> Nil] : r \in rows })

\* Service.GetLicense(key, product), which hands on what Database.GetLicense
\* returns
GetLicenseCall(p) ==
    /\ \E k \in LifecycleKeys, pr \in Products :
        /\ StartCall(p, KeyProductCall("get", k, pr))
        /\ \E got \in GetLicense(k, pr) :
            /\ ret' = [ret EXCEPT ![p] = got.err]
            /\ out' = [out EXCEPT ![p].lic = got.lic]
    /\ pc' = [pc EXCEPT ![p] = "done"]
    /\ UNCHANGED <<licenses, audit_log, now, err, txStatus, resp, lookup, hist, authVars>>

\* the zero value of VerifyResponse
ZeroResponse ==
    [Valid |-> FALSE, Reason |-> "", Key |-> << >>, Product |-> "",
     ExpiresAt |-> NilTime, OwnerEmail |-> << >>, OwnerName |-> "",
     IsActivated |-> FALSE]

\* the json struct tags of VerifyResponse
JsonName(f) ==
    CASE f = "Valid" -> "valid"
      [] f = "Reason" -> "reason"
      [] f = "Key" -> "key"
      [] f = "Product" -> "product"
      [] f = "ExpiresAt" -> "expires_at"
      [] f = "OwnerEmail" -> "owner_email"
      [] f = "OwnerName" -> "owner_name"
      [] f = "IsActivated" -> "is_activated"

OmitEmpty == DOMAIN ZeroResponse \ {"Valid"}

\* encoding/json: false, the empty string and the nil pointer are empty values
IsEmptyValue(f, v) ==
    CASE f \in {"Valid", "IsActivated"} -> v = FALSE
      [] f \in {"Reason", "Product", "OwnerName"} -> v = ""
      [] f \in {"Key", "OwnerEmail"} -> Len(v) = 0
      [] f = "ExpiresAt" -> ~v.Valid

JsonValue(f, v) ==
    IF f = "ExpiresAt" THEN (IF v.Valid THEN v.Time ELSE "null") ELSE v

\* json.NewEncoder(w).Encode(resp): the object's members
Encode(r) ==
    LET kept == { f \in DOMAIN ZeroResponse : ~(f \in OmitEmpty /\ IsEmptyValue(f, r[f])) }
        field(n) == CHOOSE f \in kept : JsonName(f) = n
    IN [n \in { JsonName(f) : f \in kept } |-> JsonValue(field(n), r[field(n)])]

NotBefore(t, u) == t >= u
NeverAfter(t, u) == FALSE
\* t.After(u)
After(t, u) == t > u

\* POST /license/verify with a well-formed body; sendResponse sets no status,
\* so every answer goes out with 200
VerifyLicense(p) ==
    /\ \E k \in LifecycleKeys, pr \in Products :
        /\ StartCall(p, KeyProductCall("verify", k, pr))
        /\ \E got \in GetLicense(k, pr) :
            /\ lookup' = [lookup EXCEPT ![p] = got.err]
            /\ resp' = [resp EXCEPT ![p] =
                 IF got.err # Nil
                 THEN Encode([ZeroResponse EXCEPT !.Reason = "License not found"])
                 ELSE IF got.lic.ExpiresAt.Valid /\ After(now, got.lic.ExpiresAt.Time)
                 THEN Encode([ZeroResponse EXCEPT !.Reason = "License expired"])
                 ELSE Encode([Valid |-> TRUE, Reason |-> "", Key |-> got.lic.Key,
                              Product |-> got.lic.Product,
                              ExpiresAt |-> got.lic.ExpiresAt,
                              OwnerEmail |-> got.lic.OwnerEmail,
                              OwnerName |-> got.lic.OwnerName,
                              IsActivated |-> got.lic.IsActivated])]
            /\ w' = [w EXCEPT ![p] = HttpJson(resp'[p])]
            /\ hist' = IF resp'[p]["valid"] /\ got.lic.ExpiresAt.Valid /\ <<k, pr>> \in Pairs
                       THEN [hist EXCEPT ![<<k, pr>>].verified = TRUE]
                       ELSE hist
    /\ pc' = [pc EXCEPT ![p] = "done"]
    /\ UNCHANGED <<licenses, audit_log, now, err, ret, txStatus>>
    /\ UNCHANGED <<out, accounts, req, tokens, seen, sm>>

----------------------------------------------------------------------------
(* Accounts: AuthService and AuthHandler. *)

Passwords == {"Secret1", "Secret2"}

\* the bodies of the registration requests: two accounts that do not clash,
\* and a third that takes the username of the first and the e-mail of the
\* second; each with a confirmation that matches or does not
RegisterInputs ==
    { [username |-> i[1], email |-> i[2], password |-> pw, passwordRepeat |-> rp] :
        i \in {<<"alice", "alice@example.com">>, <<"bob", "bob@example.com">>,
               <<"alice", "bob@example.com">>},
        pw \in Passwords, rp \in Passwords }

\* the bodies of the login requests
LoginInputs == [email : {"alice@example.com", "bob@example.com"}, password : Passwords]

\* the registrations of two accounts that do not clash, of one of them, and
\* the logins of that one
TwoAccounts ==
    { b \in RegisterInputs :
        /\ b.password = b.passwordRepeat
        /\ <<b.username, b.email, b.password>> \in
                {<<"alice", "alice@example.com", "Secret1">>,
                 <<"bob", "bob@example.com", "Secret2">>} }
OneAccount == { b \in TwoAccounts : b.username = "alice" }
AliceLogins == { b \in LoginInputs : b.email = "alice@example.com" }
OneLogin == { b \in AliceLogins : b.password = "Secret1" }

\* utils.HashPassword: the digest the adaptive hash makes of a password; it is
\* not the password, and equal only for equal passwords
HashPassword(password) == <<"bcrypt", password>>
\* utils.CheckPasswordHash
CheckPasswordHash(password, hash) == hash = HashPassword(password)

\* (the texts are Turkish; their letters are written here without diacritics)
ErrPasswordMismatch == Error("sifreler uyusmuyor")
ErrInvalidCredentials == Error("e-posta veya sifre hatali")
\* what the driver returns for an INSERT that violates a UNIQUE key of Accounts
ErrDupAccount ==
    Error("Error 1062 (23000): Duplicate entry '<value>' for key 'Accounts.<column>'")

\* err.Error(): the text of an error, the wrapped one after a colon
ErrorText(e) == IF e.cause = "" THEN <<e.msg>> ELSE <<e.msg, ": ", e.cause>>

\* a row of Accounts as INSERT INTO Accounts (username, email, password_hash)
\* makes it; id is AUTO_INCREMENT, last_login and last_login_ip start NULL
AccountRow(id, username, email, hash) ==
    [id |-> id, username |-> username, email |-> email, password_hash |-> hash,
     last_login |-> NilTime, last_login_ip |-> NilString]

\* the next AUTO_INCREMENT value of Accounts.id: one no row has
NextAccountID == Cardinality(accounts) + 1

\* username VARCHAR(50) NOT NULL UNIQUE, email VARCHAR(100) NOT NULL UNIQUE
AccountClash(username, email) ==
    \E a \in accounts : a.username = username \/ a.email = email

NeverDiffer(password, passwordRepeat) == FALSE
\* password != passwordRepeat
PasswordsDiffer(password, passwordRepeat) == password # passwordRepeat

\* AuthService.Register: the error it returns and the table it leaves.  The
\* INSERT runs outside a transaction: it fails, is refused by a unique key, or
\* adds the row
Register(username, email, password, passwordRepeat) ==
    IF PasswordsDiffer(password, passwordRepeat)
    THEN { [err |-> ErrPasswordMismatch, accounts |-> accounts] }
    ELSE { [err |-> ErrBadConn, accounts |-> accounts] }
         \cup (IF AccountClash(username, email)
               THEN { [err |-> ErrDupAccount, accounts |-> accounts] }
               ELSE { [err |-> Nil,
                       accounts |-> accounts \cup
                           {AccountRow(NextAccountID, username, email,
                                       HashPassword(password))}] })

\* request bodies that leave the handler's struct as it was: a text that is
\* not JSON, the empty object, and an object with none of the three fields
UndecodedBodies ==
    { [syntax |-> "invalid character 'x' looking for beginning of value"],
      [x \in {} |-> ""],
      [passwordRepeat |-> "Secret1"] }

\* json.NewDecoder(r.Body).Decode(&body) on the zero value of the struct: a
\* field the object has is set, any other stays "", and a text that is not
\* JSON sets none
Decode(raw) ==
    LET field(f) == IF "syntax" \notin DOMAIN raw /\ f \in DOMAIN raw THEN raw[f] ELSE ""
    IN [username |-> field("username"), email |-> field("email"),
        password |-> field("password"), passwordRepeat |-> field("passwordRepeat")]

\* AuthHandler.Register: POST /api/auth/register.  The error of Decode is
\* dropped
RegisterRequest(p, inputs) ==
    /\ \E raw \in inputs : \E body \in {Decode(raw)} :
        /\ StartCall(p, [NoCall EXCEPT !.op = "register"])
        /\ req' = [req EXCEPT ![p] =
                [NoReq EXCEPT !.username = body.username, !.email = body.email,
                              !.password = body.password,
                              !.passwordRepeat = body.passwordRepeat,
                              !.decodeErr = "syntax" \in DOMAIN raw]]
        /\ \E o \in Register(body.username, body.email, body.password,
                             body.passwordRepeat) :
            /\ accounts' = o.accounts
            /\ ret' = [ret EXCEPT ![p] = o.err]
            /\ w' = [w EXCEPT ![p] =
                        IF o.err # Nil THEN HttpError(ErrorText(o.err), 400)
                        ELSE HttpJson([message |-> "Kayit basarili"])]
    /\ pc' = [pc EXCEPT ![p] = "done"]
    /\ UNCHANGED <<sm, licenses, audit_log, now, err, txStatus, resp, lookup, hist, out,
                   tokens, seen>>

\* database.Account as Login scans it from a row
AccountOf(a) ==
    [ID |-> a.id, Username |-> a.username, Email |-> a.email,
     PasswordHash |-> a.password_hash, LastLogin |-> a.last_login]

DistinctMessages(cause) ==
    IF cause = "no account" THEN Error("hesap bulunamadi") ELSE ErrInvalidCredentials
\* the error Login returns when it finds no account, cannot read the row, or
\* finds the password wrong
LoginError(cause) == ErrInvalidCredentials

\* the entry of the history for a failure
Failure(cause, e, written) == [cause |-> cause, err |-> e, w |-> written]

\* sql.ErrNoRows
ErrNoRows == Error("sql: no rows in result set")

\* a failed login: what row.Scan returned, what AuthService.Login returns and
\* AuthHandler.Login writes
LoginFails(p, cause) ==
    /\ lookup' = [lookup EXCEPT ![p] =
            CASE cause = "query failed" -> ErrBadConn
              [] cause = "no account" -> ErrNoRows
              [] OTHER -> Nil]
    /\ ret' = [ret EXCEPT ![p] = LoginError(cause)]
    /\ w' = [w EXCEPT ![p] = HttpError(ErrorText(LoginError(cause)), 401)]
    /\ seen' = IF cause = "query failed" THEN seen
               ELSE seen \cup
                    { Failure(cause, LoginError(cause),
                              HttpError(ErrorText(LoginError(cause)), 401)) }
    /\ pc' = [pc EXCEPT ![p] = "done"]
    /\ UNCHANGED out

\* AuthHandler.Login: POST /api/auth/login, up to the password check of
\* AuthService.Login
LoginRequest(p, inputs) ==
    /\ \E body \in inputs :
        /\ StartCall(p, [NoCall EXCEPT !.op = "login"])
        /\ req' = [req EXCEPT ![p] =
                [NoReq EXCEPT !.email = body.email, !.password = body.password]]
        /\ \/ LoginFails(p, "query failed")
           \/ /\ ~ \E a \in accounts : a.email = body.email
              /\ LoginFails(p, "no account")
           \/ \E a \in accounts :
                /\ a.email = body.email
                /\ IF ~CheckPasswordHash(body.password, AccountOf(a).PasswordHash)
                   THEN LoginFails(p, "wrong password")
                   ELSE /\ out' = [out EXCEPT ![p].acc = AccountOf(a)]
                        /\ pc' = [pc EXCEPT ![p] = "login_update"]
                        /\ UNCHANGED <<ret, w, seen, lookup>>
    /\ UNCHANGED <<sm, licenses, audit_log, now, err, txStatus, resp, hist,
                   accounts, tokens>>

\* the signing key in the source
jwtKey == "8394URNV893JFNCUW819SJDHUC8EISJCJHD72W8XDMJDJEJWIZIDMRM38W9D938284949WUCNHDEU"

\* 24 * time.Hour, in ticks
TokenLifetime == 24 * 60 * 60 * TicksPerSecond

\* utils.GenerateJWT(userID): jwt.NewNumericDate cuts a time down to the second
GenerateJWT(userID) ==
    LET claims == [UserID |-> userID,
                   ExpiresAt |-> Truncate(now + TokenLifetime),
                   IssuedAt |-> Truncate(now)]
    IN [claims |-> claims, sig |-> Sign(jwtKey, claims)]

\* what the client keeps of a login: the token, and (history) when it was
\* issued and for which account
Issued(token, id) == [token |-> token, issued |-> NullTime(now), id |-> id]

\* the client keeps the tokens of its latest logins
Keep(entry) == IF Cardinality(tokens) < MaxTokens THEN tokens \cup {entry} ELSE {entry}

\* UPDATE Accounts SET last_login = NOW() (a statement that forgets the WHERE)
UpdateEveryLastLogin(id) ==
    { [a EXCEPT !.last_login = NullTime(Truncate(now))] : a \in accounts }
\* UPDATE Accounts SET last_login = NOW() WHERE id = ?
UpdateLastLogin(id) ==
    { IF a.id = id THEN [a EXCEPT !.last_login = NullTime(Truncate(now))] ELSE a :
        a \in accounts }

\* the rest of AuthService.Login and AuthHandler.Login: the update of
\* last_login, whose error is dropped, the token and the response
LoginUpdate(p) ==
    /\ pc[p] = "login_update"
    /\ \E updated \in BOOLEAN :
        accounts' = IF updated THEN UpdateLastLogin(out[p].acc.ID) ELSE accounts
    /\ ret' = [ret EXCEPT ![p] = Nil]
    /\ LET user == out[p].acc
           token == GenerateJWT(user.ID)
       IN /\ tokens' = Keep(Issued(token, user.ID))
          /\ w' = [w EXCEPT ![p] =
                HttpJson([message |-> "Giris basarili", token |-> token,
                          user |-> [id |-> user.ID, username |-> user.Username,
                                    email |-> user.Email]])]
    /\ pc' = [pc EXCEPT ![p] = "done"]
    /\ UNCHANGED <<sm, licenses, audit_log, now, call, err, txStatus, resp, lookup, pre,
                   hist, out, req, seen>>

----------------------------------------------------------------------------
(* Tokens: ParseJWT and JWTAuthMiddleware. *)

\* the errors jwt.ParseWithClaims returns: the signature is checked first, the
\* claims after it
ErrTokenSignatureInvalid ==
    [msg |-> "token signature is invalid", cause |-> "signature is invalid"]
ErrTokenExpired == [msg |-> "token has invalid claims", cause |-> "token is expired"]

NotAfter(t, u) == t <= u
\* the expiry check of the claims: now.Before(exp)
Before(t, u) == t < u

\* utils.ParseJWT(tokenStr)
ParseJWT(token) ==
    IF token.sig # Sign(jwtKey, token.claims)
    THEN [claims |-> NoClaims, err |-> ErrTokenSignatureInvalid]
    ELSE IF ~Before(now, token.claims.ExpiresAt)
    THEN [claims |-> NoClaims, err |-> ErrTokenExpired]
    ELSE [claims |-> token.claims, err |-> Nil]

\* what somebody without the key can make of a token: sign its claims with
\* another key, or change the account or the expiry and keep the signature
Forgeries(token) ==
    { [token EXCEPT !.sig = Sign("not the key of the server", token.claims)],
      [token EXCEPT !.claims.UserID = @ + 1],
      [token EXCEPT !.claims.ExpiresAt = @ + TokenLifetime] }

\* the Authorization headers of the requests: none, a token a login issued, a
\* forgery of one
Headers ==
    {NoBearer}
    \cup { [prefix |-> "Bearer ", token |-> e.token, issued |-> e.issued, id |-> e.id] :
            e \in tokens }
    \cup { [NoBearer EXCEPT !.prefix = "Bearer ", !.token = f] :
            f \in UNION { Forgeries(e.token) : e \in tokens } }

\* a request to a handler behind JWTAuthMiddleware
ProtectedRequest(p) ==
    /\ \E h \in Headers :
        /\ StartCall(p, [NoCall EXCEPT !.op = "protected"])
        /\ req' = [req EXCEPT ![p] = [NoReq EXCEPT !.bearer = h]]
        /\ IF h.prefix # "Bearer "
           THEN /\ w' = [w EXCEPT ![p] = HttpError(<<"Yetkisiz (eksik token)">>, 401)]
                /\ UNCHANGED <<ret, out, seen>>
           ELSE LET parsed == ParseJWT(h.token) IN
                /\ ret' = [ret EXCEPT ![p] = parsed.err]
                /\ IF parsed.err # Nil
                   THEN /\ w' = [w EXCEPT ![p] = HttpError(<<"Gecersiz token">>, 401)]
                        /\ seen' = seen \cup
                                { Failure(parsed.err.cause, parsed.err,
                                          HttpError(<<"Gecersiz token">>, 401)) }
                        /\ UNCHANGED out
                   ELSE /\ out' = [out EXCEPT ![p].claims = parsed.claims,
                                              ![p].entered = TRUE]
                        /\ UNCHANGED <<w, seen>>
    /\ pc' = [pc EXCEPT ![p] = "done"]
    /\ UNCHANGED <<sm, licenses, audit_log, now, err, txStatus, resp, lookup, hist,
                   accounts, tokens>>

----------------------------------------------------------------------------
(* Database.ListLicenses and Database.GetAuditLogs. *)

\* the ways to put the numbers 1..n in a row
Orderings(n) ==
    { f \in [1..n -> 1..n] : \A i, j \in 1..n : i # j => f[i] # f[j] }

Min(a, b) == IF a < b THEN a ELSE b

\* database.License as ListLicenses scans it: the query selects no product
ListedLicenseOf(r) ==
    [Key |-> r.license_key, Product |-> "", ExpiresAt |-> r.expires_at,
     OwnerEmail |-> r.owner_email, OwnerName |-> r.owner_name,
     IsActivated |-> r.is_activated]

\* the outcomes of ListLicenses(product): the query fails, or returns the
\* committed rows of the product (one per key) in some order
ListLicenses(product) ==
    LET keys == { k \in GoodKeys :
                    \E r \in CommittedLicenses : SamePair(r, k, product) }
        row(k) == CHOOSE r \in CommittedLicenses : SamePair(r, k, product)
    IN { [rows |-> << >>, err |-> Errorf("license query failed", ErrBadConn)] }
       \cup { [rows |-> [i \in 1..Len(o) |-> ListedLicenseOf(row(o[i]))], err |-> Nil] :
                o \in { s \in UNION { [1..n -> keys] : n \in {Cardinality(keys)} } :
                          \A i, j \in 1..Len(s) : i # j => s[i] # s[j] } }

\* Service.ListLicenses(product)
ListLicensesCall(p) ==
    /\ \E pr \in Products :
        /\ StartCall(p, KeyProductCall("list", << >>, pr))
        /\ \E got \in ListLicenses(pr) :
            /\ ret' = [ret EXCEPT ![p] = got.err]
            /\ out' = [out EXCEPT ![p].rows = got.rows]
    /\ pc' = [pc EXCEPT ![p] = "done"]
    /\ UNCHANGED <<licenses, audit_log, now, err, txStatus, resp, lookup, hist, authVars>>

\* database.AuditLog as GetAuditLogs scans it; Details is a Go string
AuditLogOf(a) ==
    [Action |-> a.action, LicenseKey |-> a.license_key, Product |-> a.product,
     ChangedAt |-> a.changed_at, Details |-> a.details.String]

AlwaysScans(a) == TRUE
\* rows.Scan(..., &log.Details): a NULL cannot be converted to a string
Scans(a) == a.details.Valid

\* the limits the callers pass: handleLogs (10 unless told otherwise), and small
\* ones that cut the log
Limits == {1, 2, 10}

\* the rows SELECT ... ORDER BY changed_at DESC LIMIT ? may deliver: the
\* committed rows, later ones first, rows of one second in any order
SelectAuditRows(limit) ==
    LET log == CommittedAudit
        n == Len(log)
    IN { [i \in 1..Min(limit, n) |-> log[o[i]]] :
            o \in { f \in Orderings(n) :
                      \A i, j \in 1..n :
                          i < j => log[f[i]].changed_at >= log[f[j]].changed_at } }

\* the outcomes of GetAuditLogs(limit): the query fails, a row cannot be
\* scanned, or the rows are returned
GetAuditLogs(limit) ==
    { [rows |-> << >>, err |-> Errorf("audit log query failed", ErrBadConn)] }
    \cup { IF \A i \in 1..Len(rows) : Scans(rows[i])
           THEN [rows |-> [i \in 1..Len(rows) |-> AuditLogOf(rows[i])], err |-> Nil]
           ELSE [rows |-> << >>,
                 err |-> Errorf("audit log scan failed",
                                Error("converting NULL to string is unsupported"))] :
            rows \in SelectAuditRows(limit) }

\* Service.GetAuditLogs(limit)
GetAuditLogsCall(p) ==
    /\ \E limit \in Limits :
        /\ StartCall(p, [NoCall EXCEPT !.op = "logs"])
        /\ req' = [req EXCEPT ![p] = [NoReq EXCEPT !.limit = limit]]
        /\ \E got \in GetAuditLogs(limit) :
            /\ ret' = [ret EXCEPT ![p] = got.err]
            /\ out' = [out EXCEPT ![p].rows = got.rows]
    /\ pc' = [pc EXCEPT ![p] = "done"]
    /\ UNCHANGED <<sm, licenses, audit_log, now, err, txStatus, resp, lookup, hist,
                   accounts, w, tokens, seen>>

----------------------------------------------------------------------------
(* SecurityMiddleware.RateLimit and the limiters of golang.org/x/time/rate. *)

\* the configurations a middleware is made with: the default one, ones with
\* other rates and a small burst, and one with the limiter switched off
Configs ==
    {DefaultSecurityConfig, [DefaultSecurityConfig EXCEPT !.RateLimitEnabled = FALSE]}
    \cup { [RateLimitEnabled |-> TRUE, RequestsPerMinute |-> r, BurstSize |-> 1] :
                r \in {1, 59, 60, 120} }

\* what getClientIP makes of the requests
ClientIPs == {"10.0.0.1", "10.0.0.2"}

\* sm.config.RequestsPerMinute/60.0: RequestsPerMinute is an int, so the
\* constant 60.0 is taken as the int 60 and the division is the division of
\* integers
RequestsPerSecond(requestsPerMinute) == requestsPerMinute \div 60

\* rate.NewLimiter(r, b): r events per second, bursts of b.  tokens counts
\* parts of a token, TicksPerSecond of them to a token; a new limiter grants a
\* full burst at its first use, which is written here as a full bucket
NewLimiter(r, b) == [limit |-> r, burst |-> b, tokens |-> b * TicksPerSecond, last |-> now]

\* limiter.Allow(): whether one event may happen now, and the limiter after
\* it.  A limiter of limit 0 hands out its burst and never refills; any other
\* one refills with the time that has passed, up to its burst, and is left as
\* it was when it refuses
Allow(lim) ==
    IF lim.limit = 0
    THEN IF lim.burst >= 1
         THEN [ok |-> TRUE, lim |-> [lim EXCEPT !.burst = @ - 1]]
         ELSE [ok |-> FALSE, lim |-> lim]
    ELSE LET filled == Min(lim.burst * TicksPerSecond,
                           lim.tokens + (now - lim.last) * lim.limit)
         IN IF filled >= TicksPerSecond
            THEN [ok |-> TRUE,
                  lim |-> [lim EXCEPT !.tokens = filled - TicksPerSecond, !.last = now]]
            ELSE [ok |-> FALSE, lim |-> lim]

\* sm.getRateLimiter(clientIP): the limiter of the address, a new one when it
\* has none
getRateLimiter(clientIP) ==
    IF clientIP \in DOMAIN sm.rateLimiters
    THEN sm.rateLimiters[clientIP]
    ELSE NewLimiter(RequestsPerSecond(sm.config.RequestsPerMinute), sm.config.BurstSize)

\* a request to a handler behind SecurityMiddleware.RateLimit
RateLimit(p) ==
    /\ \E ip \in ClientIPs :
        /\ StartCall(p, [NoCall EXCEPT !.op = "limited"])
        /\ req' = [req EXCEPT ![p] = [NoReq EXCEPT !.clientIP = ip]]
        /\ IF ~sm.config.RateLimitEnabled
           THEN /\ out' = [out EXCEPT ![p].entered = TRUE]
                /\ UNCHANGED <<sm, w>>
           ELSE LET allowed == Allow(getRateLimiter(ip)) IN
                /\ sm' = [sm EXCEPT !.rateLimiters =
                            [x \in DOMAIN @ \cup {ip} |->
                                IF x = ip THEN allowed.lim ELSE @[x]]]
                /\ IF ~allowed.ok
                   THEN /\ w' = [w EXCEPT ![p] = HttpError(<<"Rate limit exceeded">>, 429)]
                        /\ UNCHANGED out
                   ELSE /\ out' = [out EXCEPT ![p].entered = TRUE]
                        /\ UNCHANGED w
    /\ pc' = [pc EXCEPT ![p] = "done"]
    /\ UNCHANGED <<licenses, audit_log, now, err, ret, txStatus, resp, lookup, hist,
                   accounts, tokens, seen>>

----------------------------------------------------------------------------
(* The end of a request, and the clock. *)

\* the request or CLI invocation is over.  A transaction it left open stays open
\* on its pooled connection; such a transaction has written nothing (only the
\* zero-rows return of DeleteLicense leaves one), so no row carries its number
\* and the next call of p may use the number again
Finish(p) ==
    /\ pc[p] = "done"
    /\ pc' = [pc EXCEPT ![p] = "idle"]
    /\ call' = [call EXCEPT ![p] = NoCall]
    /\ err' = [err EXCEPT ![p] = Nil]
    /\ ret' = [ret EXCEPT ![p] = Nil]
    /\ txStatus' = [txStatus EXCEPT ![p] = "none"]
    /\ resp' = [resp EXCEPT ![p] = NoResp]
    /\ lookup' = [lookup EXCEPT ![p] = Nil]
    /\ pre' = [pre EXCEPT ![p] = NoSnapshot]
    /\ out' = [out EXCEPT ![p] = NoOut]
    /\ req' = [req EXCEPT ![p] = NoReq]
    /\ w' = [w EXCEPT ![p] = NoW]
    /\ UNCHANGED <<licenses, audit_log, now, hist, accounts, tokens, seen, sm>>

Tick ==
    /\ now < MaxTime
    /\ now' = now + 1
    /\ UNCHANGED <<licenses, audit_log, pc, call, err, ret, txStatus, resp, lookup,
                   pre, hist>>
    /\ UNCHANGED <<out, authVars>>

\* a day less a second passes
DayPasses ==
    /\ now <= MaxTime
    /\ now' = now + TokenLifetime - TicksPerSecond
    /\ UNCHANGED <<licenses, audit_log, pc, call, err, ret, txStatus, resp, lookup,
                   pre, hist, out, authVars>>

----------------------------------------------------------------------------
(* Specifications. *)

\* the license lifecycle, one request at a time
Next ==
    \/ \E p \in Cli :
        \/ AddLicenseCall(p, AddInputs)
        \/ AddInsertLicense(p)
        \/ AddInsertAudit(p)
        \/ AddCommit(p)
        \/ DeleteLicenseCall(p)
        \/ DeleteExec(p)
        \/ DeleteInsertAudit(p)
        \/ DeleteCommit(p)
        \/ GetLicenseCall(p)
        \/ VerifyLicense(p)
        \/ Finish(p)
    \/ Tick

Spec == Init /\ [][Next]_vars

\* Service.AddLicense applied to the sample keys and e-mails
NextValidate ==
    \E p \in Cli :
        \/ AddLicenseCall(p, ValidationInputs)
        \/ AddInsertLicense(p)
        \/ AddInsertAudit(p)
        \/ AddCommit(p)
        \/ Finish(p)

SpecValidate == Init /\ [][NextValidate]_vars

\* adds and deletes of independent requests, their statements interleaved
NextConc ==
    \E p \in Procs :
        \/ AddLicenseCall(p, ConcInputs)
        \/ AddInsertLicense(p)
        \/ AddInsertAudit(p)
        \/ AddCommit(p)
        \/ DeleteLicenseCall(p)
        \/ DeleteExec(p)
        \/ DeleteInsertAudit(p)
        \/ DeleteCommit(p)
        \/ Finish(p)

SpecConc == Init /\ [][NextConc]_vars

\* one invocation of the CLI's add command with --key random
NextKeygen ==
    \E p \in Cli :
        \/ AddLicenseCall(p, { [AddCallOf(GenerateLicenseKey(d), "Demo", MailA, "A B", NilTime)
                                    EXCEPT !.random = TRUE] : d \in Draws })
        \/ AddInsertLicense(p)
        \/ AddInsertAudit(p)
        \/ AddCommit(p)

SpecKeygen == Init /\ [][NextKeygen]_vars

\* requests of two clients to a middleware made with some configuration
NextRate ==
    \/ \E p \in Cli :
        \/ RateLimit(p)
        \/ Finish(p)
    \/ Tick

SpecRate == (\E config \in Configs : InitWith(config)) /\ [][NextRate]_vars

\* registration and login, one request at a time
NextAuth ==
    \E p \in Cli :
        \/ RegisterRequest(p, RegisterInputs)
        \/ LoginRequest(p, LoginInputs)
        \/ LoginUpdate(p)
        \/ Finish(p)

SpecAuth == Init /\ [][NextAuth]_vars

\* every operation there is, one request at a time, on one license
NextAudit ==
    \/ \E p \in Cli :
        \/ AddLicenseCall(p, ConcInputs)
        \/ AddInsertLicense(p)
        \/ AddInsertAudit(p)
        \/ AddCommit(p)
        \/ DeleteLicenseCall(p)
        \/ DeleteExec(p)
        \/ DeleteInsertAudit(p)
        \/ DeleteCommit(p)
        \/ GetLicenseCall(p)
        \/ ListLicensesCall(p)
        \/ GetAuditLogsCall(p)
        \/ VerifyLicense(p)
        \/ RegisterRequest(p, OneAccount)
        \/ LoginRequest(p, OneLogin)
        \/ LoginUpdate(p)
        \/ Finish(p)
    \/ Tick

SpecAudit == Init /\ [][NextAudit]_vars

\* a license that may expire, an account, and verifications as time passes
NextVerify ==
    \/ \E p \in Cli :
        \/ AddLicenseCall(p, { AddCallOf(KeyA, "Demo", MailA, "A B", e) : e \in Expiries })
        \/ AddInsertLicense(p)
        \/ AddInsertAudit(p)
        \/ AddCommit(p)
        \/ DeleteLicenseCall(p)
        \/ DeleteExec(p)
        \/ DeleteInsertAudit(p)
        \/ DeleteCommit(p)
        \/ VerifyLicense(p)
        \/ RegisterRequest(p, OneAccount)
        \/ LoginRequest(p, OneLogin)
        \/ LoginUpdate(p)
        \/ Finish(p)
    \/ Tick

SpecVerify == Init /\ [][NextVerify]_vars

\* two accounts, the logins of one of them, and requests that present tokens
\* at once and a day later
NextToken ==
    \/ \E p \in Cli :
        \/ RegisterRequest(p, TwoAccounts)
        \/ LoginRequest(p, AliceLogins)
        \/ LoginUpdate(p)
        \/ ProtectedRequest(p)
        \/ Finish(p)
    \/ Tick
    \/ DayPasses

SpecToken == Init /\ [][NextToken]_vars

\* registrations with bodies the handler cannot decode or that name no
\* account, beside those of one account, and logins
NextDecode ==
    \E p \in Cli :
        \/ RegisterRequest(p, OneAccount \cup UndecodedBodies)
        \/ LoginRequest(p, OneLogin \cup {[email |-> "", password |-> ""]})
        \/ LoginUpdate(p)
        \/ Finish(p)

SpecDecode == Init /\ [][NextDecode]_vars

----------------------------------------------------------------------------
(* Properties. *)

Finished(p, op) == pc[p] = "done" /\ call[p].op = op

\* the committed tables are as they were when p's call started
TablesUnchanged(p) ==
    /\ CommittedLicenses = pre[p].licenses
    /\ CommittedAudit = pre[p].audit

\* the committed tables are as they were when p's call started, plus the
\* license row of p's add call and one ADD audit row for it
AddedBoth(p) ==
    LET c == call[p]
        new == CommittedLicenses \ pre[p].licenses
    IN /\ pre[p].licenses \subseteq CommittedLicenses
       /\ Cardinality(new) = 1
       /\ \A r \in new :
            /\ SamePair(r, c.key, c.product)
            /\ ~ \E o \in pre[p].licenses : SamePair(o, c.key, c.product)
       /\ Len(CommittedAudit) = Len(pre[p].audit) + 1
       /\ SubSeq(CommittedAudit, 1, Len(pre[p].audit)) = pre[p].audit
       /\ LET a == CommittedAudit[Len(CommittedAudit)] IN
            a.action = "ADD" /\ a.license_key = c.key /\ a.product = c.product

\* C1: AddLicense is atomic over the license table and the audit log.  From
\* the start of an add call on, whatever fails in it, the committed tables
\* hold either both the new license row and exactly one matching ADD audit row
\* or neither of them; once the call has returned, both are present exactly
\* when it returned no error.
C1_AddAtomic ==
    \A p \in Procs :
        call[p].op = "add" =>
            /\ TablesUnchanged(p) \/ AddedBoth(p)
            /\ pc[p] = "done" => (ret[p] = Nil <=> AddedBoth(p))

\* an add call whose license insert succeeded and whose audit insert failed
C1_Witness ==
    \E p \in Procs :
        /\ Finished(p, "add")
        /\ ret[p] = Errorf("audit log insert failed", ErrBadConn)
        /\ TablesUnchanged(p)

\* C2: DeleteLicense is atomic with its audit append.  When the DELETE audit
\* insert fails after the license row was deleted inside the transaction, the
\* transaction is rolled back, the call returns an error, the license row is
\* still present and the audit log holds no DELETE row of the call.
C2_DeleteRollsBack ==
    \A p \in Procs :
        (Finished(p, "delete") /\ ret[p].msg = "audit log insert failed") =>
            /\ txStatus[p] = "rolledback"
            /\ ret[p] # Nil
            /\ \E r \in licenses :
                /\ SamePair(r, call[p].key, call[p].product)
                /\ r.tx = 0 /\ r.del = 0
            /\ TablesUnchanged(p)
            /\ audit_log = pre[p].audit

\* a delete call that found its row and failed on the audit insert
C2_Witness ==
    \E p \in Procs :
        /\ Finished(p, "delete")
        /\ ret[p].msg = "audit log insert failed"
        /\ \E r \in pre[p].licenses : SamePair(r, call[p].key, call[p].product)

\* C3: every transaction begun by AddLicense or DeleteLicense is finished by
\* the time the operation returns: committed when the call returns no error,
\* rolled back on every error return; no call returns with its transaction
\* still open.
C3_NoOpenTxAtReturn ==
    \A p \in Procs :
        (pc[p] = "done" /\ call[p].op \in {"add", "delete"}) =>
            /\ txStatus[p] # "open"
            /\ ret[p] = Nil <=> txStatus[p] = "committed"

\* C4: adding a (key, product) pair that already exists fails with
\* ErrDuplicateKey, not with a generic insert failure, and leaves the license
\* table and the audit log as they were.
C4_DuplicateKeyError ==
    \A p \in Procs :
        (Finished(p, "add") /\ err[p] = ErrDupEntry) =>
            /\ ret[p] = ErrDuplicateKey
            /\ TablesUnchanged(p)
            /\ Cardinality({ r \in CommittedLicenses :
                              SamePair(r, call[p].key, call[p].product) }) = 1

\* C5: DeleteLicense on a (key, product) pair that has no license row leaves
\* the license table and the audit log unchanged, writes no DELETE audit row,
\* and returns ErrLicenseNotFound whenever no statement of the call failed.
C5_DeleteMissing ==
    \A p \in Procs :
        (Finished(p, "delete")
            /\ ~ \E r \in pre[p].licenses : SamePair(r, call[p].key, call[p].product)) =>
            /\ TablesUnchanged(p)
            /\ audit_log = pre[p].audit
            /\ ret[p] # Nil
            /\ err[p] = Nil => ret[p] = ErrLicenseNotFound

\* a delete of a missing pair that returned "license not found"
C5_Witness ==
    \E p \in Procs :
        /\ Finished(p, "delete")
        /\ ret[p] = ErrLicenseNotFound
        /\ ~ \E r \in pre[p].licenses : SamePair(r, call[p].key, call[p].product)

\* exactly four groups of four characters from [A-Z0-9] separated by single
\* hyphens: 19 characters, hyphens at positions 5, 10 and 15
KeyShape(key) ==
    /\ Len(key) = 19
    /\ \A i \in 1..19 :
        IF i \in {5, 10, 15} THEN key[i] = Hyphen ELSE key[i] \in Upper \cup Digit

\* C6: AddLicense returns ErrInvalidLicenseKey if and only if the key is not
\* exactly four groups of four characters from [A-Z0-9] separated by single
\* hyphens.
C6_InvalidKeyFormat ==
    \A p \in Procs :
        Finished(p, "add") =>
            (ret[p] = ErrInvalidLicenseKey <=> ~KeyShape(call[p].key))

\* a key of 19 characters with a lowercase letter is rejected, and a key of the
\* right shape has passed the check
C6_Witness ==
    \E p \in Procs :
        /\ Finished(p, "add")
        /\ \/ ret[p] = ErrInvalidLicenseKey /\ Len(call[p].key) = 19
           \/ ret[p] = ErrInvalidEmail /\ KeyShape(call[p].key)

\* local@domain.tld: exactly one "@", something before it, and after it a part
\* with a "." that has at least one character on each side
EmailShape(email) ==
    LET ats == { i \in 1..Len(email) : email[i] = "@" } IN
    /\ Cardinality(ats) = 1
    /\ \A a \in ats :
        /\ a > 1
        /\ \E d \in (a + 2)..(Len(email) - 1) : email[d] = "."

\* C7: for a key that passes the key-format check, AddLicense returns
\* ErrInvalidEmail if and only if the owner e-mail is not of the shape
\* local@domain.tld; in that case the persistence layer is not called and no
\* license or audit row is written.
C7_InvalidEmail ==
    \A p \in Procs :
        (Finished(p, "add") /\ KeyShape(call[p].key)) =>
            /\ ret[p] = ErrInvalidEmail <=> ~EmailShape(call[p].owner_email)
            /\ ret[p] = ErrInvalidEmail =>
                /\ txStatus[p] = "none"
                /\ err[p] = Nil
                /\ licenses = pre[p].licenses
                /\ audit_log = pre[p].audit

\* an e-mail with one "@" and no "." after it is rejected
C7_Witness ==
    \E p \in Procs :
        /\ Finished(p, "add")
        /\ ret[p] = ErrInvalidEmail
        /\ Cardinality({ i \in 1..Len(call[p].owner_email) :
                            call[p].owner_email[i] = "@" }) = 1

\* the verify of p found the license row r
VerifyFound(p, r) ==
    /\ Finished(p, "verify")
    /\ lookup[p] = Nil
    /\ r \in pre[p].licenses
    /\ SamePair(r, call[p].key, call[p].product)

Invalid(response, reason) ==
    /\ response["valid"] = FALSE
    /\ "reason" \in DOMAIN response
    /\ response["reason"] = reason

\* the verify of p answered as the expiry rule says, with `reason` as the
\* reason of an expired license
ExpiryRule(p, reason) ==
    \A r \in pre[p].licenses :
        VerifyFound(p, r) =>
            LET expired == r.expires_at.Valid /\ call[p].at > r.expires_at.Time IN
            /\ Invalid(resp[p], reason) <=> expired
            /\ ~expired => resp[p]["valid"] = TRUE

Member(object, name, zero) == IF name \in DOMAIN object THEN object[name] ELSE zero

\* the verify of p answered as the lifecycle says, with `reason` as the reason
\* of a deleted license
LifecycleRule(p, reason) ==
    (Finished(p, "verify") /\ lookup[p].msg # "license query failed") =>
        LET h == hist[<<call[p].key, call[p].product>>] IN
        /\ (h.st = "live" /\ ~h.expires_at.Valid) =>
            /\ resp[p]["valid"] = TRUE
            /\ Member(resp[p], "owner_email", << >>) = h.owner_email
            /\ Member(resp[p], "owner_name", "") = h.owner_name
        /\ h.st = "deleted" => Invalid(resp[p], reason)

C10_ResponseShape ==
    \A p \in Procs :
        Finished(p, "verify") =>
            IF resp[p]["valid"]
            THEN DOMAIN resp[p] = {"valid", "key", "product", "expires_at",
                                   "owner_email", "owner_name", "is_activated"}
            ELSE DOMAIN resp[p] = {"valid", "reason"}

\* the get of p returned the license the last successful add of the pair
\* wrote, its expiry standing in the relation `same` to the one given at add time
RoundTrip(p, same(_, _)) ==
    LET c == call[p]
        h == hist[<<c.key, c.product>>]
    IN (Finished(p, "get") /\ ret[p].msg # "license query failed" /\ h.st = "live") =>
        /\ ret[p] = Nil
        /\ out[p].lic.Key = c.key
        /\ out[p].lic.Product = c.product
        /\ out[p].lic.OwnerEmail = h.owner_email
        /\ out[p].lic.OwnerName = h.owner_name
        /\ same(h.expires_at, out[p].lic.ExpiresAt)
        /\ out[p].lic.IsActivated = FALSE

AsGiven(given, returned) == returned = given

\* returned is absent when given is, and else the whole second nearest to
\* given, the later one of two equally near
NearestSecond(given, returned) ==
    /\ returned.Valid = given.Valid
    /\ ~given.Valid => returned = NilTime
    /\ given.Valid =>
        /\ returned.Time % TicksPerSecond = 0
        /\ 2 * (given.Time - returned.Time) < TicksPerSecond
        /\ 2 * (returned.Time - given.Time) <= TicksPerSecond

\* C11 as stated: after a successful AddLicense(key, product, ownerEmail,
\* ownerName, expiresAt), GetLicense(key, product) with no delete in between
\* returns a license with the key, product, owner e-mail and owner name given,
\* with no expiry when none was given and the given expiry otherwise, and
\* with the activation flag false.
C11_ExpiryAsGiven == \A p \in Procs : RoundTrip(p, AsGiven)

\* C11, amended: the same, the expiry returned being the given expiry rounded
\* to the nearest whole second, as the DATETIME column keeps it.
C11_RoundTrip == \A p \in Procs : RoundTrip(p, NearestSecond)

\* a get of a license that was added with an expiry inside a second
C11_Witness ==
    \E p \in Procs :
        /\ Finished(p, "get")
        /\ ret[p] = Nil
        /\ hist[<<call[p].key, call[p].product>>].st = "live"
        /\ hist[<<call[p].key, call[p].product>>].expires_at.Valid
        /\ out[p].lic.ExpiresAt # hist[<<call[p].key, call[p].product>>].expires_at

\* no statement of p's add call failed for a reason of the storage
NoStorageFault(p) == ret[p] = Nil \/ err[p] = ErrDupEntry

\* the current calls of p and q ran at the same time for a while
Overlapped(p, q) == q \in call[p].with \/ p \in call[q].with

\* p and q have both returned from overlapping adds of one pair that was absent
\* when each of them started
RacedForAbsentPair(p, q) ==
    /\ p # q
    /\ Overlapped(p, q)
    /\ Finished(p, "add") /\ Finished(q, "add")
    /\ call[p].key = call[q].key /\ call[p].product = call[q].product
    /\ \A x \in {p, q} :
        ~ \E r \in pre[x].licenses : SamePair(r, call[p].key, call[p].product)

\* C12: in every reachable state, however concurrent AddLicense and
\* DeleteLicense calls interleave, the license table holds at most one row per
\* (key, product) pair; when two AddLicense calls for the same absent pair run
\* concurrently (and no statement fails for a reason of the storage), exactly
\* one of them succeeds, and the other fails leaving no license row and no ADD
\* audit row of its own: one row and one new ADD audit row exist.
C12_UniquePair ==
    /\ \A r1, r2 \in licenses :
            SamePair(r1, r2.license_key, r2.product) => r1 = r2
    /\ \A p, q \in Procs :
        (RacedForAbsentPair(p, q) /\ NoStorageFault(p) /\ NoStorageFault(q)) =>
            /\ (ret[p] = Nil) # (ret[q] = Nil)
            /\ Cardinality({ r \in licenses :
                    SamePair(r, call[p].key, call[p].product) }) = 1
            /\ \A r \in licenses : r.tx = 0 /\ r.del = 0
            /\ audit_log = CommittedAudit
            /\ \E x \in {p, q} :
                /\ Len(audit_log) = Len(pre[x].audit) + 1
                /\ SubSeq(audit_log, 1, Len(pre[x].audit)) = pre[x].audit
                /\ audit_log[Len(audit_log)].action = "ADD"
                /\ audit_log[Len(audit_log)].license_key = call[p].key
                /\ audit_log[Len(audit_log)].product = call[p].product

\* two overlapping adds of one absent pair: one succeeded, the other one was
\* refused by the unique key
C12_Witness ==
    \E p, q \in Procs :
        /\ RacedForAbsentPair(p, q)
        /\ ret[p] = Nil
        /\ err[q] = ErrDupEntry

\* C13: the audit log is append-only.  Across any sequence of AddLicense,
\* DeleteLicense, GetLicense, ListLicenses, GetAuditLogs, verify, Register and
\* Login operations no existing (committed) audit entry is ever modified or
\* removed; the log only grows, and it grows only by one ADD entry when an
\* AddLicense commits and by one DELETE entry when a DeleteLicense commits.
C13_AppendOnly ==
    [][ \/ CommittedAudit' = CommittedAudit
        \/ \E p \in Procs :
            /\ Len(CommittedAudit') = Len(CommittedAudit) + 1
            /\ SubSeq(CommittedAudit', 1, Len(CommittedAudit)) = CommittedAudit
            /\ pc'[p] = "done" /\ ret'[p] = Nil /\ txStatus'[p] = "committed"
            /\ LET a == CommittedAudit'[Len(CommittedAudit')] IN
                /\ a.license_key = call[p].key
                /\ a.product = call[p].product
                /\ \/ pc[p] = "add_commit" /\ a.action = "ADD"
                   \/ pc[p] = "del_commit" /\ a.action = "DELETE"
      ]_vars

\* the log holds an ADD and a DELETE entry, and a login has just succeeded
C13_Witness ==
    /\ \E i, j \in 1..Len(CommittedAudit) :
        CommittedAudit[i].action = "ADD" /\ CommittedAudit[j].action = "DELETE"
    /\ \E p \in Procs : Finished(p, "login") /\ ret[p] = Nil /\ w[p].status = 200

\* the result of p's GetAuditLogs call is the `limit` most recent entries of
\* the log, later ones first
MostRecent(p) ==
    LET logs == out[p].rows
        log == pre[p].audit
        k == Min(req[p].limit, Len(log))
        from(t) == Cardinality({ i \in 1..Len(log) : log[i].changed_at >= t })
        got(t) == Cardinality({ i \in 1..Len(logs) : logs[i].ChangedAt >= t })
    IN /\ ret[p] = Nil
       /\ Len(logs) = k
       /\ \A i, j \in 1..Len(logs) : i < j => logs[i].ChangedAt >= logs[j].ChangedAt
       /\ \A i \in 1..Len(log) : got(log[i].changed_at) = Min(k, from(log[i].changed_at))

\* C14: GetAuditLogs(limit) for limit >= 1 returns min(limit, number of audit
\* entries) entries, sorted by timestamp in non-increasing order, and every
\* returned entry has a timestamp greater than or equal to that of every entry
\* not returned (whenever the query itself does not fail).
C14_MostRecent ==
    \A p \in Procs :
        (Finished(p, "logs") /\ ret[p].msg # "audit log query failed") => MostRecent(p)

\* C15: Register with a password different from the confirmation always fails
\* with the password-mismatch error and writes nothing: the Accounts table is
\* the same before and after the call, whatever the username and the e-mail
\* are (also ones that exist already).
C15_PasswordMismatch ==
    \A p \in Procs :
        (Finished(p, "register") /\ req[p].password # req[p].passwordRepeat) =>
            /\ ret[p] = ErrPasswordMismatch
            /\ accounts = pre[p].accounts

\* a registration with a confirmation that differs, for a username that exists
C15_Witness ==
    \E p \in Procs :
        /\ Finished(p, "register")
        /\ req[p].password # req[p].passwordRepeat
        /\ \E a \in pre[p].accounts : a.username = req[p].username

\* errors that come from the storage as they are
IsDriverError(e) == e \in {ErrBadConn, ErrDupEntry, ErrDupAccount}

\* C16: Register with matching passwords and a username or an e-mail of an
\* existing account fails with the distinguishable DuplicateAccount error kind,
\* not with a generic persistence error, and leaves the Accounts table as it
\* was (whenever the INSERT itself is carried out).
C16_DuplicateAccount ==
    \A p \in Procs :
        (/\ Finished(p, "register")
         /\ req[p].password = req[p].passwordRepeat
         /\ \E a \in pre[p].accounts :
                a.username = req[p].username \/ a.email = req[p].email
         /\ ret[p] # ErrBadConn) =>
            /\ ret[p] # Nil
            /\ ~IsDriverError(ret[p])
            /\ accounts = pre[p].accounts

\* C17: a failed login does not tell its cause.  Of any two failed logins, one
\* for an e-mail that has no account and one for an existing e-mail with a
\* wrong password, the error Login returns and the HTTP response (status and
\* body) are the same, and no failed login changes the Accounts table.
C17_SameFailure ==
    /\ \A a, b \in seen :
        (a.cause = "no account" /\ b.cause = "wrong password") =>
            a.err = b.err /\ a.w = b.w
    /\ \A p \in Procs :
        (Finished(p, "login") /\ ret[p] # Nil) => accounts = pre[p].accounts

\* both kinds of failed login have happened, the second just now
C17_Witness ==
    /\ \E a, b \in seen : a.cause = "no account" /\ b.cause = "wrong password"
    /\ \E p \in Procs : Finished(p, "login") /\ ret[p] # Nil

\* the whole second a time lies in
SecondOf(t) == t - (t % TicksPerSecond)

\* p's login was for the account row a, with its password
CorrectLogin(p, a) ==
    /\ Finished(p, "login")
    /\ lookup[p] # ErrBadConn
    /\ a \in pre[p].accounts
    /\ a.email = req[p].email
    /\ a.password_hash = <<"bcrypt", req[p].password>>

\* C18: Login with an existing e-mail and the right password succeeds and
\* returns that account, also when the update of last_login fails (the table
\* is then as before); when the update succeeds, last_login of the account is
\* the time of the login (NOW(), a whole second) and no other field of it and
\* no other account is changed.
C18_LoginBestEffort ==
    \A p \in Procs : \A a \in pre[p].accounts :
        CorrectLogin(p, a) =>
            /\ ret[p] = Nil
            /\ w[p].status = 200
            /\ out[p].acc.ID = a.id
            /\ out[p].acc.Username = a.username
            /\ out[p].acc.Email = a.email
            /\ \/ accounts = pre[p].accounts
               \/ \E b \in accounts :
                    /\ accounts = (pre[p].accounts \ {a}) \cup {b}
                    /\ b = [a EXCEPT !.last_login = b.last_login]
                    /\ b.last_login.Valid
                    /\ b.last_login.Time = SecondOf(b.last_login.Time)
                    /\ SecondOf(call[p].at) <= b.last_login.Time
                    /\ b.last_login.Time <= now

\* a successful login that left the table as it was, a second or more after
\* the account logged in last, with another account in the table
C18_Witness ==
    \E p \in Procs : \E a \in pre[p].accounts :
        /\ CorrectLogin(p, a)
        /\ ret[p] = Nil
        /\ accounts = pre[p].accounts
        /\ Cardinality(accounts) = 2
        /\ a.last_login.Valid
        /\ a.last_login.Time < SecondOf(call[p].at)

\* a presented token was rejected
Rejected(p) ==
    /\ Finished(p, "protected")
    /\ req[p].bearer.prefix = "Bearer "
    /\ ret[p] # Nil

\* C19: token verification rejects every token whose signature was not made
\* with the server's key and every token whose expiry has passed; both
\* failures reach the caller as one and the same outcome (same error, same
\* HTTP status and body); a rejected token never lets the protected handler
\* run.
C19_InvalidToken ==
    /\ \A p \in Procs :
        (Finished(p, "protected") /\ req[p].bearer.prefix = "Bearer ") =>
            LET token == req[p].bearer.token IN
            /\ (token.sig.key # jwtKey \/ token.sig.claims # token.claims
                    \/ call[p].at > token.claims.ExpiresAt) => Rejected(p)
            /\ Rejected(p) => ~out[p].entered /\ w[p].status = 401
    /\ \A a, b \in seen :
        (a.cause = "signature is invalid" /\ b.cause = "token is expired") =>
            a.err = b.err /\ a.w = b.w

\* p presented, at the time call[p].at, a token GenerateJWT issued
PresentedIssued(p) ==
    /\ Finished(p, "protected")
    /\ req[p].bearer.prefix = "Bearer "
    /\ req[p].bearer.issued.Valid

Accepted(p) ==
    /\ ret[p] = Nil
    /\ out[p].entered
    /\ out[p].claims.UserID = req[p].bearer.id

\* C20 as stated: a token GenerateJWT(id) issued at time t verifies at every
\* time strictly before t + 24h and yields id, and is rejected at every time
\* after t + 24h.
C20_Lifetime ==
    \A p \in Procs :
        PresentedIssued(p) =>
            LET t == req[p].bearer.issued.Time IN
            /\ call[p].at < t + 24 * 60 * 60 * TicksPerSecond => Accepted(p)
            /\ call[p].at > t + 24 * 60 * 60 * TicksPerSecond => Rejected(p)

\* C20, amended: the expiry is kept in whole seconds.  A token GenerateJWT(id)
\* issued at time t, s being the whole second t lies in, verifies at every time
\* strictly before s + 24h and yields id, and is rejected at s + 24h and at
\* every later time.
C20_LifetimeInSeconds ==
    \A p \in Procs :
        PresentedIssued(p) =>
            LET s == SecondOf(req[p].bearer.issued.Time) IN
            /\ call[p].at < s + 24 * 60 * 60 * TicksPerSecond => Accepted(p)
            /\ call[p].at >= s + 24 * 60 * 60 * TicksPerSecond => Rejected(p)

\* a token issued inside a second and presented 24 hours after the start of
\* that second, less than 24 hours after it was issued
C20_Witness ==
    \E p \in Procs :
        /\ PresentedIssued(p)
        /\ call[p].at < req[p].bearer.issued.Time + 24 * 60 * 60 * TicksPerSecond
        /\ call[p].at >= SecondOf(req[p].bearer.issued.Time) + 24 * 60 * 60 * TicksPerSecond
        /\ Rejected(p)

\* p's registration was for a username or an e-mail that an account had
\* already, with a confirmation that matched, and the INSERT was carried out
DuplicateRegistration(p) ==
    /\ Finished(p, "register")
    /\ req[p].password = req[p].passwordRepeat
    /\ \E a \in pre[p].accounts : a.username = req[p].username \/ a.email = req[p].email
    /\ ret[p] # ErrBadConn

\* C21: the registration endpoint maps error kinds to distinct status codes: a
\* password mismatch gives 400, a registration of a username or an e-mail
\* that exists already gives 409, success gives 200; a duplicate registration
\* is never answered with 400.
C21_RegisterStatus ==
    \A p \in Procs :
        Finished(p, "register") =>
            /\ req[p].password # req[p].passwordRepeat => w[p].status = 400
            /\ DuplicateRegistration(p) => w[p].status = 409 /\ w[p].status # 400
            /\ ret[p] = Nil => w[p].status = 200

\* C22: a persistence failure (a storage error other than row-not-found or a
\* uniqueness violation) is always surfaced with HTTP status 500 and never
\* reported as another outcome: the verify endpoint does not answer it with a
\* 200 "not found" result, the login endpoint not with 401 invalid
\* credentials, the register endpoint not with 400.
C22_PersistenceFailure ==
    \A p \in Procs :
        /\ (Finished(p, "verify") /\ lookup[p] = Errorf("license query failed", ErrBadConn)) =>
            /\ w[p].status = 500
            /\ ~Invalid(resp[p], "License not found")
        /\ (Finished(p, "login") /\ lookup[p] = ErrBadConn) =>
            /\ w[p].status = 500
            /\ ret[p] # ErrInvalidCredentials
        /\ (Finished(p, "register") /\ ret[p] = ErrBadConn) => w[p].status = 500

\* p's verify changed nothing, and answered with `reason` if it found the
\* license with its expiry passed
Stateless(p, reason) ==
    Finished(p, "verify") =>
        /\ licenses = pre[p].licenses
        /\ audit_log = pre[p].audit
        /\ accounts = pre[p].accounts
        /\ \A r \in pre[p].licenses :
            (VerifyFound(p, r) /\ r.expires_at.Valid /\ call[p].at > r.expires_at.Time) =>
                Invalid(resp[p], reason)

C24_ProductRequired ==
    \A p \in Procs :
        (Finished(p, "add") /\ call[p].product = "") =>
            /\ ret[p].msg = "product name is required"
            /\ txStatus[p] = "none"
            /\ err[p] = Nil
            /\ licenses = pre[p].licenses
            /\ audit_log = pre[p].audit

\* the characters of a key that are not hyphens
Alnums(key) == SelectSeq(key, LAMBDA ch : ch # Hyphen)

\* C25: every key GenerateLicenseKey produces consists of 16 characters of
\* the 36-character alphabet A-Z0-9 in four hyphen-separated blocks of four,
\* so it passes the key-format check: add --key random never fails with
\* ErrInvalidLicenseKey.
C25_GeneratedKey ==
    \A p \in Procs :
        (call[p].op = "add" /\ call[p].random) =>
            /\ KeyShape(call[p].key)
            /\ Len(Alnums(call[p].key)) = 16
            /\ \A i \in 1..Len(Alnums(call[p].key)) :
                    Alnums(call[p].key)[i] \in Upper \cup Digit
            /\ Cardinality(Upper \cup Digit) = 36
            /\ pc[p] = "done" => ret[p] # ErrInvalidLicenseKey

\* an add with a generated key that holds the first letter and the last digit
\* of the alphabet went through
C25_Witness ==
    \E p \in Procs :
        /\ Finished(p, "add")
        /\ call[p].random
        /\ ret[p] = Nil
        /\ \E i, j \in 1..Len(call[p].key) :
            call[p].key[i] = "A" /\ call[p].key[j] = "9"

\* C26: with the default configuration (RequestsPerMinute = 100, BurstSize =
\* 20) the limiter made for a client refills at 100 requests per minute with
\* a burst of 20; in general the refill rate per second is RequestsPerMinute
\* divided by 60 without truncation, so every RequestsPerMinute >= 1 gives a
\* rate that is not zero.
C26_RefillRate ==
    \A ip \in DOMAIN sm.rateLimiters :
        LET lim == sm.rateLimiters[ip] IN
        /\ 60 * lim.limit = sm.config.RequestsPerMinute
        /\ sm.config.RequestsPerMinute >= 1 => lim.limit > 0
        /\ sm.config = DefaultSecurityConfig => 60 * lim.limit = 100 /\ lim.burst = 20

\* the number of committed audit entries with the action for the pair
AuditCount(action, key, product) ==
    Cardinality({ i \in 1..Len(CommittedAudit) :
                    /\ CommittedAudit[i].action = action
                    /\ SamePair(CommittedAudit[i], key, product) })

\* C27: audit accounting.  Starting from empty tables, in every reachable
\* committed state and for every (key, product) pair, the number of ADD audit
\* entries less the number of DELETE audit entries of the pair is 1 if a
\* license row of the pair exists and 0 otherwise: every successful add and
\* every successful delete contributes exactly one entry, every failed one
\* none.
C27_AuditAccounting ==
    \A pair \in Pairs :
        AuditCount("ADD", pair[1], pair[2]) - AuditCount("DELETE", pair[1], pair[2])
            = IF \E r \in CommittedLicenses : SamePair(r, pair[1], pair[2]) THEN 1 ELSE 0

\* a pair added, deleted and added again, the last time by one of two
\* requests of which the other failed
C27_Witness ==
    /\ AuditCount("ADD", KeyA, "Demo") = 2
    /\ AuditCount("DELETE", KeyA, "Demo") = 1
    /\ \E r \in CommittedLicenses : SamePair(r, KeyA, "Demo")
    /\ \E p, q \in Procs :
        /\ p # q
        /\ Finished(p, "add") /\ ret[p] = Nil
        /\ Finished(q, "add") /\ ret[q] # Nil

\* p and q have both returned from overlapping deletes of one pair that was
\* there when each of them started, no transaction committed between their
\* starts (both set out to delete the same row), and no statement of theirs
\* failed for a reason of the storage
RacedToDelete(p, q) ==
    /\ p # q
    /\ Overlapped(p, q)
    /\ pre[p].audit = pre[q].audit
    /\ Finished(p, "delete") /\ Finished(q, "delete")
    /\ call[p].key = call[q].key /\ call[p].product = call[q].product
    /\ \A x \in {p, q} :
        /\ \E r \in pre[x].licenses : SamePair(r, call[p].key, call[p].product)
        /\ ret[x] \in {Nil, ErrLicenseNotFound}

\* C28: when two DeleteLicense calls for the same existing (key, product) pair
\* run concurrently (and no statement fails for a reason of the storage),
\* exactly one of them returns success and appends exactly one DELETE audit
\* entry; the other returns ErrLicenseNotFound and appends none, and
\* afterwards the license row is absent.
C28_OneDeleteWins ==
    \A p, q \in Procs :
        RacedToDelete(p, q) =>
            /\ (ret[p] = Nil) # (ret[q] = Nil)
            /\ ErrLicenseNotFound \in {ret[p], ret[q]}
            /\ ~ \E r \in licenses : SamePair(r, call[p].key, call[p].product)
            /\ audit_log = CommittedAudit
            /\ \A x \in {p, q} :
                /\ Len(audit_log) = Len(pre[x].audit) + 1
                /\ SubSeq(audit_log, 1, Len(pre[x].audit)) = pre[x].audit
            /\ LET a == audit_log[Len(audit_log)] IN
                /\ a.action = "DELETE"
                /\ a.license_key = call[p].key
                /\ a.product = call[p].product

\* two overlapping deletes of one pair: the second waited for the first, found
\* no row and returned with its transaction still open
C28_Witness ==
    \E p, q \in Procs :
        /\ RacedToDelete(p, q)
        /\ ret[p] = Nil
        /\ ret[q] = ErrLicenseNotFound
        /\ txStatus[q] = "open"

\* the call listed the entry e before the entry f
ListedBefore(p, e, f) ==
    \E a, b \in 1..Len(out[p].rows) :
        /\ a < b
        /\ out[p].rows[a] = AuditLogOf(e)
        /\ out[p].rows[b] = AuditLogOf(f)

\* C29: the audit order reflects the commit order.  If an AddLicense of a pair
\* committed before a DeleteLicense of the same pair, GetAuditLogs with a limit
\* of at least the number of audit entries lists the DELETE entry before the
\* ADD entry, also when both were written in the same second (whenever the
\* query itself does not fail).
C29_CommitOrder ==
    \A p \in Procs :
        ( /\ Finished(p, "logs")
          /\ ret[p].msg # "audit log query failed"
          /\ req[p].limit >= Len(pre[p].audit) ) =>
            \A i, j \in 1..Len(pre[p].audit) :
                LET add == pre[p].audit[i]
                    del == pre[p].audit[j]
                IN ( /\ i < j
                     /\ add.action = "ADD" /\ del.action = "DELETE"
                     /\ SamePair(del, add.license_key, add.product) ) =>
                        ListedBefore(p, del, add)

\* an account made of nothing: no username, no e-mail, and the hash of the
\* empty password
EmptyAccount(a) ==
    a.username = "" /\ a.email = "" /\ a.password_hash = HashPassword("")

\* C30: a registration request whose body cannot be decoded as JSON, or that
\* has no username, e-mail and password, is answered with an error and
\* inserts no row into Accounts; no sequence of requests makes an account
\* whose username, e-mail and password are all empty.
C30_UndecodedBody ==
    /\ \A p \in Procs :
        ( /\ Finished(p, "register")
          /\ \/ req[p].decodeErr
             \/ req[p].username = "" /\ req[p].email = "" /\ req[p].password = "" ) =>
            /\ w[p].status >= 400
            /\ accounts = pre[p].accounts
    /\ ~ \E a \in accounts : EmptyAccount(a)

====
